---- MODULE Spec2Model ----
(***************************************************************************)
(* A model of go-expectimax: the node tree with its reference counts and   *)
(* node pool (node.go), the coordinator loop RunExpectimax and its client  *)
(* entry points (expectimax.go) and the exploration workers.               *)
(*                                                                         *)
(* float64 values are modelled as exact rationals <<num, den>> in lowest   *)
(* terms; rounding is not modelled.  The coordinator's handlers are atomic *)
(* (one action per select case); the workers' Explore, the walk of GetGame *)
(* and the deleteTree goroutine are split at their shared-memory accesses. *)
(***************************************************************************)
EXTENDS Integers, Sequences, FiniteSets, TLC

\* ------------------------------------------------------------------ bounds
\* Largest number of moves after which a game is over (depth of the game tree).
GameLen == 3
\* Largest number of legal moves of a game state.
MaxBranch == 2
\* Number of exploration workers of the model (expectimaxWorkerCount, scaled).
NumWorkers == 2
\* cap(exploredNodeChannel) / expectimaxWorkerCount (10 in the code, scaled).
ExploredFactor == 1
\* Number of client goroutines and of calls each of them makes.
NumClients == 1
MaxCalls == 2
\* The node budgets of the model (maxNodeCount).
SmallBudget == 3
MidBudget == 5
\* How many nodes may have a "go exploredNode.decrementReference()" goroutine
\* waiting to run: the coordinator takes no further explored node while that
\* many have.
MaxPending == 1
\* How many moves the real game makes at most.
MaxMoves == 2
\* The requests the coordinator puts back while moves are waiting, at most.
MaxRequeues == 1
\* A node budget large enough for the warm-up of the replies (maxNodeCount / 100 > 0).
LargeBudget == 100

\* ------------------------------------------------------- program constants
MoveListenerCap == 4
RequestChannelCap == 10
WarmUpDivisor == 100

\* explorationStatus
Unexplored == 0
WaitingForExploration == 1
Exploring == 2
Explored == 3
Archived == 4

\* ---------------------------------------------------------------- rationals
RECURSIVE GCD(_, _)
GCD(a, b) == IF b = 0 THEN a ELSE GCD(b, a % b)

Abs(x) == IF x < 0 THEN 0 - x ELSE x

Rat(n, d) ==
    IF n = 0 THEN <<0, 1>>
    ELSE LET g == GCD(Abs(n), d) IN <<n \div g, d \div g>>

RZero == <<0, 1>>
ROne == <<1, 1>>
RAdd(a, b) == Rat(a[1] * b[2] + b[1] * a[2], a[2] * b[2])
RMul(a, b) == Rat(a[1] * b[1], a[2] * b[2])
RLess(a, b) == a[1] * b[2] < b[1] * a[2]
RLeq(a, b) == a[1] * b[2] <= b[1] * a[2]

\* ------------------------------------------------------------------- lists
RECURSIVE SetToSeq(_)
SetToSeq(S) ==
    IF S = {} THEN <<>>
    ELSE LET x == CHOOSE y \in S : \A z \in S : y <= z
         IN <<x>> \o SetToSeq(S \ {x})

Range(s) == {s[i] : i \in 1..Len(s)}

Reverse(s) == [i \in 1..Len(s) |-> s[Len(s) + 1 - i]]

\* The orders in which a Go map of moves may be iterated in the model.
Orders == {SetToSeq(1..MaxBranch), Reverse(SetToSeq(1..MaxBranch))}

\* The keys K of a map in iteration order ord.
RECURSIVE Filter(_, _)
Filter(ord, K) ==
    IF ord = <<>> THEN <<>>
    ELSE IF Head(ord) \in K THEN <<Head(ord)>> \o Filter(Tail(ord), K)
    ELSE Filter(Tail(ord), K)

\* -------------------------------------------------------------------- game
\* A game state is what the game is (the number of moves after which it is
\* over, and the move its MakeMove refuses although GetPossibleMoves lists it,
\* NoMove when it refuses none), followed by the moves made so far; moves are
\* 1..branch.
NoGame == <<>>
NoMove == 0
NoNode == 0

NewGame(len) == <<<<len, NoMove>>>>

\* A game whose MakeMove returns an error for move.
RefusingGame(len, move) == <<<<len, move>>>>

IsGameOver(g) == Len(g) - 1 >= g[1][1]

GetPossibleMoves(g, branch) ==
    IF IsGameOver(g) THEN <<>> ELSE SetToSeq(1..branch)

\* The error MakeMove returns (game.go 11).
MakeMoveError(g, m) == m = g[1][2]

\* The game after MakeMove; a refused move leaves it as it was.
MakeMove(g, m) == IF MakeMoveError(g, m) THEN g ELSE Append(g, m)

RECURSIVE WeightedSum(_)
WeightedSum(ms) ==
    IF ms = <<>> THEN 0
    ELSE ms[Len(ms)] * (Len(ms) + 1) + WeightedSum(SubSeq(ms, 1, Len(ms) - 1))

\* The heuristic of the model: a pure function of the moves made.
Heuristic(g) == Rat(WeightedSum(Tail(g)) % 5, 1)

\* ------------------------------------------------------------------- nodes
\* The nodes of a full game tree of depth d.
RECURSIVE TreeSize(_)
TreeSize(d) == IF d = 0 THEN 1 ELSE 1 + MaxBranch * TreeSize(d - 1)

\* One node for every state of the game, and the node NewExpectimax allocates.
NodeIds == 1..(1 + TreeSize(GameLen))

\* The state reset() leaves a node in; trace is a history field: the statuses
\* assigned to the node since it was last reset.
ResetNode(n) ==
    [game |-> NoGame, parent |-> NoNode, children |-> <<>>,
     childLikelihood |-> <<>>, childExploreProbability |-> <<>>,
     explorationStatus |-> Unexplored, lastMove |-> NoMove,
     heuristic |-> RZero, value |-> RZero,
     mostLikelyUnexploredDescendent |-> n,
     mostLikelyUnexploredDescendentLikelihood |-> ROne,
     descendentCount |-> 0, averageDepth |-> RZero,
     referenceCount |-> 0, markedForDeletion |-> FALSE,
     trace |-> <<Unexplored>>]

\* A heap h is [n |-> the nodes, pool |-> the nodes in expectimaxNodeMemoryPool].
SetField(h, n, f, v) == [h EXCEPT !.n[n][f] = v]

SetStatus(h, n, s) ==
    [h EXCEPT !.n[n].explorationStatus = s, !.n[n].trace = Append(@, s)]

incrementReference(h, n) ==
    IF h.n[n].markedForDeletion THEN h
    ELSE [h EXCEPT !.n[n].referenceCount = @ + 1]

\* The loop of reset over node.children: a child whose parent is still n loses it.
RECURSIVE clearParent(_, _, _)
clearParent(h, n, kids) ==
    IF kids = <<>> THEN h
    ELSE clearParent(IF h.n[Head(kids)].parent = n
                     THEN [h EXCEPT !.n[Head(kids)].parent = NoNode]
                     ELSE h,
                     n, Tail(kids))

RECURSIVE decrementReference(_, _)
RECURSIVE reset(_, _)

reset(h, n) ==
    LET d == h.n[n].mostLikelyUnexploredDescendent
        h1 == IF d # NoNode /\ d # n THEN decrementReference(h, d) ELSE h
    IN [clearParent(h1, n, h1.n[n].children) EXCEPT !.n[n] = ResetNode(n)]

decrementReference(h, n) ==
    LET h1 == [h EXCEPT !.n[n].referenceCount = @ - 1]
    IN IF h1.n[n].referenceCount = 0 /\ h1.n[n].markedForDeletion
       THEN [reset(h1, n) EXCEPT !.pool = @ \cup {n}]
       ELSE h1

\* The k lowest numbers of S, as a sequence.
RECURSIVE Lowest(_, _)
Lowest(S, k) ==
    IF k = 0 \/ S = {} THEN <<>>
    ELSE LET x == CHOOSE y \in S : \A z \in S : y <= z
         IN <<x>> \o Lowest(S \ {x}, k - 1)

\* getNewNode for k nodes: the k pooled nodes of lowest number, as a sequence.
getNewNodes(h, k) == Lowest(h.pool, k)

\* ------------------------------------------------- frontier priority cache
ExploreProbability(nd, m) ==
    IF m \in DOMAIN nd.childExploreProbability THEN nd.childExploreProbability[m] ELSE RZero

\* The loop that forgets to weigh a child's likelihood by the probability of
\* exploring that child.
RECURSIVE mostLikelyAmongChildren_Unweighted(_, _, _, _)
mostLikelyAmongChildren_Unweighted(h, n, keys, best) ==
    IF keys = <<>> THEN best
    ELSE LET child == h.n[h.n[n].children[Head(keys)]]
             exploreChildLikelihood == child.mostLikelyUnexploredDescendentLikelihood
         IN IF child.mostLikelyUnexploredDescendent = NoNode
               \/ child.explorationStatus \notin {Unexplored, Archived}
            THEN mostLikelyAmongChildren_Unweighted(h, n, Tail(keys), best)
            ELSE IF RLess(best[2], exploreChildLikelihood)
            THEN mostLikelyAmongChildren_Unweighted(h, n, Tail(keys),
                     <<child.mostLikelyUnexploredDescendent, exploreChildLikelihood>>)
            ELSE mostLikelyAmongChildren_Unweighted(h, n, Tail(keys), best)

\* The loop that passes over the Archived children and so never looks below
\* the first level.
RECURSIVE mostLikelyAmongChildren_UnexploredOnly(_, _, _, _)
mostLikelyAmongChildren_UnexploredOnly(h, n, keys, best) ==
    IF keys = <<>> THEN best
    ELSE LET childMove == Head(keys)
             child == h.n[h.n[n].children[childMove]]
             exploreChildLikelihood ==
                 RMul(child.mostLikelyUnexploredDescendentLikelihood,
                      ExploreProbability(h.n[n], childMove))
         IN IF child.mostLikelyUnexploredDescendent = NoNode
               \/ child.explorationStatus # Unexplored
            THEN mostLikelyAmongChildren_UnexploredOnly(h, n, Tail(keys), best)
            ELSE IF RLess(best[2], exploreChildLikelihood)
            THEN mostLikelyAmongChildren_UnexploredOnly(h, n, Tail(keys),
                     <<child.mostLikelyUnexploredDescendent, exploreChildLikelihood>>)
            ELSE mostLikelyAmongChildren_UnexploredOnly(h, n, Tail(keys), best)

\* The loop over node.children of updateMostLikelyUnexploredDescendent: best is
\* the pair <<descendent, likelihood>> found so far, keys the moves still to visit.
RECURSIVE mostLikelyAmongChildren(_, _, _, _)
mostLikelyAmongChildren(h, n, keys, best) ==
    IF keys = <<>> THEN best
    ELSE LET childMove == Head(keys)
             child == h.n[h.n[n].children[childMove]]
             exploreChildLikelihood ==
                 RMul(child.mostLikelyUnexploredDescendentLikelihood,
                      ExploreProbability(h.n[n], childMove))
         IN IF child.mostLikelyUnexploredDescendent = NoNode
               \/ child.explorationStatus \notin {Unexplored, Archived}
            THEN mostLikelyAmongChildren(h, n, Tail(keys), best)
            ELSE IF RLess(best[2], exploreChildLikelihood)
            THEN mostLikelyAmongChildren(h, n, Tail(keys),
                     <<child.mostLikelyUnexploredDescendent, exploreChildLikelihood>>)
            ELSE mostLikelyAmongChildren(h, n, Tail(keys), best)

RECURSIVE updateMostLikelyUnexploredDescendent(_, _, _, _)
updateMostLikelyUnexploredDescendent(h, n, recursive, ord) ==
    IF h.n[n].markedForDeletion THEN h
    ELSE
    LET h1 == incrementReference(h, n)
        nd == h1.n[n]
        new == CASE nd.explorationStatus = Unexplored -> <<n, ROne>>
                 [] nd.explorationStatus \in {WaitingForExploration, Exploring} ->
                        <<NoNode, RZero>>
                 [] OTHER ->
                        mostLikelyAmongChildren(h1, n, Filter(ord, DOMAIN nd.children),
                                                <<NoNode, RZero>>)
        old == nd.mostLikelyUnexploredDescendent
        changed == new[1] # old \/ new[2] # nd.mostLikelyUnexploredDescendentLikelihood
        h2 == IF old # NoNode /\ old # n THEN decrementReference(h1, old) ELSE h1
        h3 == IF new[1] # NoNode /\ new[1] # n THEN incrementReference(h2, new[1]) ELSE h2
        h4 == [h3 EXCEPT !.n[n].mostLikelyUnexploredDescendent = new[1],
                         !.n[n].mostLikelyUnexploredDescendentLikelihood = new[2]]
        parent == h4.n[n].parent
        h5 == IF recursive /\ parent # NoNode
              THEN updateMostLikelyUnexploredDescendent(h4, parent, TRUE, ord)
              ELSE h4
    IN decrementReference(IF changed THEN h5 ELSE h1, n)

\* ------------------------------------------- value and likelihood propagation
getChildValue(h, n, childMove) ==
    IF childMove \in DOMAIN h.n[n].children
    THEN h.n[h.n[n].children[childMove]].value
    ELSE RZero

\* The two child-likelihood functions of the model (calculateChildLikelihoodFunc):
\* "uniform" gives every child 1/K, "greedy" gives the first child of highest
\* value likelihood 1 and the others 0.
LikelihoodFns == {"uniform", "greedy"}

\* Whether child m of n is the first child of highest value.
IsFirstBestChild(h, n, m) ==
    /\ \A o \in 1..Len(h.n[n].children) :
           RLeq(getChildValue(h, n, o), getChildValue(h, n, m))
    /\ \A o \in 1..(m - 1) : RLess(getChildValue(h, n, o), getChildValue(h, n, m))

ChildLikelihoodFunc(fn, h, n) ==
    [m \in 1..Len(h.n[n].children) |->
        IF fn = "uniform" THEN Rat(1, Len(h.n[n].children))
        ELSE IF IsFirstBestChild(h, n, m) THEN ROne ELSE RZero]

RECURSIVE WeightedValue(_, _, _)
WeightedValue(h, n, k) ==
    IF k = 0 THEN RZero
    ELSE RAdd(RMul(h.n[n].childLikelihood[k], h.n[h.n[n].children[k]].value),
              WeightedValue(h, n, k - 1))

\* calculateChildLikelihood that never goes on to the parent.
calculateChildLikelihood_NoParent(h, n, recursive, ord, fn) ==
    IF h.n[n].markedForDeletion THEN h
    ELSE
    LET h1 == incrementReference(h, n)
        likelihood == ChildLikelihoodFunc(fn, h1, n)
        K == Len(likelihood)
        h2 == [h1 EXCEPT !.n[n].childLikelihood = likelihood,
                         !.n[n].childExploreProbability =
                             [m \in 1..K |-> RAdd(Rat(1, 10 * K),
                                                  RMul(Rat(9, 10), likelihood[m]))]]
        value == IF Len(h2.n[n].children) = 0 THEN h2.n[n].heuristic
                 ELSE WeightedValue(h2, n, Len(h2.n[n].children))
        h3 == [h2 EXCEPT !.n[n].value = value]
    IN decrementReference(updateMostLikelyUnexploredDescendent(h3, n, recursive, ord), n)

RECURSIVE calculateChildLikelihood(_, _, _, _, _)
calculateChildLikelihood(h, n, recursive, ord, fn) ==
    IF h.n[n].markedForDeletion THEN h
    ELSE
    LET h1 == incrementReference(h, n)
        likelihood == ChildLikelihoodFunc(fn, h1, n)
        K == Len(likelihood)
        h2 == [h1 EXCEPT !.n[n].childLikelihood = likelihood,
                         !.n[n].childExploreProbability =
                             [m \in 1..K |-> RAdd(Rat(1, 10 * K),
                                                  RMul(Rat(9, 10), likelihood[m]))]]
        value == IF Len(h2.n[n].children) = 0 THEN h2.n[n].heuristic
                 ELSE WeightedValue(h2, n, Len(h2.n[n].children))
        parent == h2.n[n].parent
        h3 == [h2 EXCEPT !.n[n].value = value]
        h4 == IF recursive /\ value # h2.n[n].value /\ parent # NoNode
              THEN calculateChildLikelihood(
                       updateMostLikelyUnexploredDescendent(h3, n, FALSE, ord),
                       parent, TRUE, ord, fn)
              ELSE updateMostLikelyUnexploredDescendent(h3, n, recursive, ord)
    IN decrementReference(h4, n)

RECURSIVE SumAverageDepth(_, _, _)
SumAverageDepth(h, n, k) ==
    IF k = 0 THEN RZero
    ELSE RAdd(h.n[h.n[n].children[k]].averageDepth, SumAverageDepth(h, n, k - 1))

RECURSIVE updateAverageDepth(_, _)
updateAverageDepth(h, n) ==
    IF h.n[n].markedForDeletion THEN h
    ELSE
    LET h1 == incrementReference(h, n)
        K == Len(h1.n[n].children)
        h2 == [h1 EXCEPT !.n[n].averageDepth =
                  IF K = 0 THEN RZero
                  ELSE RAdd(ROne, RMul(SumAverageDepth(h1, n, K), Rat(1, K)))]
        parent == h2.n[n].parent
        h3 == IF parent # NoNode THEN updateAverageDepth(h2, parent) ELSE h2
    IN decrementReference(h3, n)

\* addDescendents that does not give up on a node marked for deletion.
RECURSIVE addDescendents_Unguarded(_, _, _)
addDescendents_Unguarded(h, n, descendentCount) ==
    LET h1 == incrementReference(h, n)
        h2 == [h1 EXCEPT !.n[n].descendentCount = @ + descendentCount]
        parent == h2.n[n].parent
        h3 == IF parent # NoNode
              THEN addDescendents_Unguarded(h2, parent, descendentCount)
              ELSE h2
    IN IF h.n[n].markedForDeletion THEN h3 ELSE decrementReference(h3, n)

RECURSIVE addDescendents(_, _, _)
addDescendents(h, n, descendentCount) ==
    IF h.n[n].markedForDeletion THEN h
    ELSE
    LET h1 == incrementReference(h, n)
        h2 == [h1 EXCEPT !.n[n].descendentCount = @ + descendentCount]
        parent == h2.n[n].parent
        h3 == IF parent # NoNode THEN addDescendents(h2, parent, descendentCount) ELSE h2
    IN decrementReference(h3, n)

\* setWaitingForExploration that forgets to set the status.
setWaitingForExploration_NoStatus(h, n, ord) ==
    IF h.n[n].markedForDeletion THEN h
    ELSE decrementReference(
             updateMostLikelyUnexploredDescendent(incrementReference(h, n), n, TRUE, ord),
             n)

setWaitingForExploration(h, n, ord) ==
    IF h.n[n].markedForDeletion THEN h
    ELSE decrementReference(
             updateMostLikelyUnexploredDescendent(
                 SetStatus(incrementReference(h, n), n, WaitingForExploration),
                 n, TRUE, ord),
             n)

\* processExploredNode that forgets parent.addDescendents.
processExploredNode_NoCount(h, n, ord, fn) ==
    IF h.n[n].markedForDeletion THEN h
    ELSE
    LET h1 == SetStatus(incrementReference(h, n), n, Archived)
        parent == h1.n[n].parent
        h2 == IF parent # NoNode /\ ~h1.n[parent].markedForDeletion
              THEN decrementReference(
                       updateAverageDepth(
                           calculateChildLikelihood(incrementReference(h1, parent),
                                                    parent, TRUE, ord, fn),
                           parent),
                       parent)
              ELSE h1
    IN decrementReference(h2, n)

processExploredNode(h, n, ord, fn) ==
    IF h.n[n].markedForDeletion THEN h
    ELSE
    LET h1 == SetStatus(incrementReference(h, n), n, Archived)
        parent == h1.n[n].parent
        h2 == IF parent # NoNode /\ ~h1.n[parent].markedForDeletion
              THEN decrementReference(
                       addDescendents(
                           updateAverageDepth(
                               calculateChildLikelihood(incrementReference(h1, parent),
                                                        parent, TRUE, ord, fn),
                               parent),
                           parent, Len(h1.n[n].children)),
                       parent)
              ELSE h1
    IN decrementReference(h2, n)

\* --------------------------------------------------- GetGame, Explore, descend
\* GetGame run without interruption (the coordinator's calls); its reference
\* brackets leave the heap as it was.
RECURSIVE GetGame(_, _)
GetGame(h, n) ==
    IF h.n[n].markedForDeletion THEN NoGame
    ELSE IF h.n[n].game # NoGame THEN h.n[n].game
    ELSE IF h.n[n].parent = NoNode THEN NoGame
    ELSE LET game == GetGame(h, h.n[n].parent)
         IN IF game = NoGame THEN NoGame ELSE MakeMove(game, h.n[n].lastMove)

\* Explore that forgets "node.explorationStatus = Exploring".
ExploreBegin_NoStatus(h, n) ==
    LET h1 == incrementReference(h, n)
        d == h1.n[n].mostLikelyUnexploredDescendent
        h2 == IF d # NoNode /\ d # n THEN decrementReference(h1, d) ELSE h1
    IN [h2 EXCEPT !.n[n].mostLikelyUnexploredDescendent = NoNode,
                  !.n[n].mostLikelyUnexploredDescendentLikelihood = RZero]

\* Explore up to its call of GetGame (node.go 317-328); n is not marked.
ExploreBegin(h, n) ==
    LET h1 == incrementReference(h, n)
        d == h1.n[n].mostLikelyUnexploredDescendent
        h2 == IF d # NoNode /\ d # n THEN decrementReference(h1, d) ELSE h1
    IN [SetStatus(h2, n, Exploring) EXCEPT
            !.n[n].mostLikelyUnexploredDescendent = NoNode,
            !.n[n].mostLikelyUnexploredDescendentLikelihood = RZero]

\* The loop of Explore over the possible moves (node.go 335-350).
RECURSIVE addChildren(_, _, _, _)
addChildren(h, n, nodeGame, moves) ==
    IF moves = <<>> THEN h
    ELSE LET move == Head(moves)
             childHeuristic == Heuristic(MakeMove(nodeGame, move))
             childNode == getNewNodes(h, 1)[1]
         IN addChildren(
                [h EXCEPT !.pool = @ \ {childNode},
                          !.n[childNode].parent = n,
                          !.n[childNode].heuristic = childHeuristic,
                          !.n[childNode].value = childHeuristic,
                          !.n[childNode].lastMove = move,
                          !.n[n].children = Append(@, childNode),
                          !.n[n].childLikelihood = Append(@, RZero),
                          !.n[n].childExploreProbability = Append(@, RZero)],
                n, nodeGame, Tail(moves))

\* Explore from the result nodeGame of GetGame to its deferred decrement
\* (node.go 331-357).
ExploreFinish(h, n, nodeGame, branch, ord, fn) ==
    IF nodeGame = NoGame THEN decrementReference(h, n)
    ELSE
    LET moves == GetPossibleMoves(nodeGame, branch)
        h1 == addChildren(h, n, nodeGame, moves)
        h2 == [h1 EXCEPT !.n[n].descendentCount = Len(h1.n[n].children),
                         !.n[n].averageDepth = ROne]
    IN decrementReference(
           calculateChildLikelihood(SetStatus(h2, n, Explored), n, FALSE, ord, fn), n)

\* Explore run without interruption (the coordinator's inline call).
Explore(h, n, branch, ord, fn) ==
    IF h.n[n].markedForDeletion THEN h
    ELSE LET h1 == ExploreBegin(h, n)
         IN ExploreFinish(h1, n, GetGame(h1, n), branch, ord, fn)

\* descendToChild is fatal when the node or the child is marked for deletion,
\* and panics on a move that is no key of children.
descendFails(h, n, move) ==
    \/ h.n[n].markedForDeletion
    \/ move \notin DOMAIN h.n[n].children
    \/ h.n[h.n[n].children[move]].markedForDeletion

\* descendToChild that takes the parent's game as the child's snapshot.
descendToChild_ParentGame(h, n, move) ==
    LET childNode == h.n[n].children[move]
        h1 == incrementReference(incrementReference(h, n), childNode)
        h2 == [h1 EXCEPT !.n[childNode].game = h1.n[n].game,
                         !.n[childNode].parent = NoNode]
    IN decrementReference(decrementReference(h2, n), childNode)

\* The heap descendToChild leaves, the deleteTree goroutine not yet started.
descendToChild(h, n, move) ==
    LET childNode == h.n[n].children[move]
        h1 == incrementReference(incrementReference(h, n), childNode)
        h2 == [h1 EXCEPT !.n[childNode].game = GetGame(h1, childNode),
                         !.n[childNode].parent = NoNode]
    IN decrementReference(decrementReference(h2, n), childNode)

NewBaseNode(h, game) ==
    LET node == getNewNodes(h, 1)[1]
    IN [h EXCEPT !.pool = @ \ {node}, !.n[node].game = game]

\* ==================================================================== state
VARIABLES
    cfg,        \* the inputs: branching of the game, likelihood function, maxNodeCount,
                \* number of workers, of clients, of calls of a client, and of moves
                \* the real game makes
    heap,       \* the expectimaxNode objects and the node pool
    rootNode,   \* Expectimax.rootNode
    game,       \* Expectimax.game: the real game
    moveListener,                   \* chan of moves, capacity MoveListenerCap
    bestMoveChannelReceiver,        \* chan of reply channels
    nextMoveChannelReceiver,        \* chan of reply channels
    unexploredNodeReceiverChannel,  \* chan of the workers' reply channels
    exploredNodeChannel,            \* chan of nodes
    coord,      \* the coordinator RunExpectimax: its position and pending move
    workers,    \* the exploreNodeWorker goroutines
    deleters,   \* the running "go node.deleteTree(childNode)" goroutines
    pendingDecrements,  \* the running "go exploredNode.decrementReference()" goroutines
    delayed,    \* the sleeping goroutines that requeue a request after 100ms
    clients,    \* the goroutines calling GetBestMove / GetNextMoveValues
    sent,       \* history: the replies sent on each reply channel
    placed,     \* history: the calls that put each reply channel on a request channel
    requeued    \* history: the reply channels the coordinator has put back on their
                \* request channel because moves were waiting

vars == <<cfg, heap, rootNode, game, moveListener, bestMoveChannelReceiver,
          nextMoveChannelReceiver, unexploredNodeReceiverChannel, exploredNodeChannel,
          coord, workers, deleters, pendingDecrements, delayed, clients, sent, placed, requeued>>

\* The goroutines that can call GetBestMove / GetNextMoveValues: NumClients of
\* them, or one more than the request channels hold.
Clients == 1..(RequestChannelCap + NumClients)
ReplyChannels == Clients \X (0..MaxCalls)

\* A call that reuses the channel of the client's previous call.
NewReplyChannel_Reused(c, k) == <<c, 1>>

\* make(chan ...) in GetBestMove / GetNextMoveValues: the channel of client c's
\* call number k.
NewReplyChannel(c, k) == <<c, k>>

\* The values sent on reply channels: a move (nil is NoMove), or a ValueMap.
BestMoveReply(move) == [kind |-> "best", move |-> move, values |-> <<>>]
NextMoveReply(values) == [kind |-> "next", move |-> NoMove, values |-> values]

InitWith(C, G) ==
    /\ cfg \in C
    /\ game \in G
    /\ heap = NewBaseNode([n |-> [x \in NodeIds |-> ResetNode(x)], pool |-> NodeIds], game)
    /\ rootNode = 1
    /\ moveListener = <<>>
    /\ bestMoveChannelReceiver = <<>>
    /\ nextMoveChannelReceiver = <<>>
    /\ unexploredNodeReceiverChannel = <<>>
    /\ exploredNodeChannel = <<>>
    /\ coord = [pc |-> "start", move |-> NoMove, held |-> <<>>]
    /\ workers = <<>>
    /\ deleters = <<>>
    /\ pendingDecrements = [x \in NodeIds |-> 0]
    /\ delayed = {}
    /\ clients = [c \in Clients |->
                    [pc |-> "idle", chan |-> <<c, 0>>, calls |-> 0,
                     got |-> BestMoveReply(NoMove), ret |-> <<>>]]
    /\ sent = [ch \in ReplyChannels |-> <<>>]
    /\ placed = [ch \in ReplyChannels |-> <<>>]
    /\ requeued = {}


Alive == coord.pc # "crashed"

\* ------------------------------------------------------------- coordinator
\* RunExpectimax up to its loop (expectimax.go 78-91).
Start ==
    /\ coord.pc = "start"
    /\ heap' = NewBaseNode(heap, game)
    /\ rootNode' = getNewNodes(heap, 1)[1]
    /\ workers' = [w \in 1..cfg.workers |->
                     [pc |-> "start", node |-> NoNode, terminate |-> FALSE,
                      stack |-> <<>>, res |-> NoGame, seen |-> <<>>]]
    /\ coord' = [coord EXCEPT !.pc = "select"]
    /\ UNCHANGED <<cfg, game, moveListener, bestMoveChannelReceiver,
                   nextMoveChannelReceiver, unexploredNodeReceiverChannel,
                   exploredNodeChannel, deleters, pendingDecrements, delayed, clients,
                   sent, placed, requeued>>

\* The end of a loop iteration (expectimax.go 191-198): where the coordinator is
\* next with root r in heap h.
LoopEnd(h, r) ==
    IF h.n[r].game = NoGame THEN "crashed"
    ELSE IF IsGameOver(h.n[r].game) THEN "done"
    ELSE "select"

Terminate(ws, pc) ==
    IF pc = "done" THEN [w \in DOMAIN ws |-> [ws[w] EXCEPT !.terminate = TRUE]] ELSE ws

\* expectimax.go 127-131 and 191-198: descend to the child of move and start the
\* deleteTree goroutine of the old root.
Descend(h, move) ==
    IF descendFails(h, rootNode, move)
    THEN /\ heap' = h
         /\ coord' = [pc |-> "crashed", move |-> NoMove, held |-> <<>>]
         /\ UNCHANGED <<rootNode, deleters, workers>>
    ELSE LET h1 == descendToChild(h, rootNode, move)
             child == h.n[rootNode].children[move]
         IN /\ heap' = h1
            /\ rootNode' = child
            /\ deleters' = Append(deleters,
                   <<[node |-> rootNode, exempt |-> child, entered |-> FALSE, keys |-> <<>>]>>)
            /\ coord' = [pc |-> LoopEnd(h1, child), move |-> NoMove, held |-> <<>>]
            /\ workers' = Terminate(workers, LoopEnd(h1, child))

\* case move := <-moveListener (expectimax.go 108-131).
CoordMove ==
    /\ coord.pc = "select"
    /\ moveListener # <<>>
    /\ moveListener' = Tail(moveListener)
    /\ \E ord \in Orders :
         LET move == Head(moveListener)
             status == heap.n[rootNode].explorationStatus
         IN CASE status = Unexplored ->
                   Descend(processExploredNode(
                               Explore(heap, rootNode, cfg.branch, ord, cfg.fn),
                               rootNode, ord, cfg.fn), move)
              [] status \in {WaitingForExploration, Exploring} ->
                   /\ coord' = [pc |-> "waitRoot", move |-> move, held |-> <<>>]
                   /\ UNCHANGED <<heap, rootNode, deleters, workers>>
              [] OTHER -> Descend(heap, move)
    /\ UNCHANGED <<cfg, game, bestMoveChannelReceiver, nextMoveChannelReceiver,
                   unexploredNodeReceiverChannel, exploredNodeChannel,
                   pendingDecrements, delayed, clients, sent, placed, requeued>>

\* The loop "for this.rootNode.explorationStatus != Archived" (expectimax.go 120-124).
CoordWaitRoot ==
    /\ coord.pc = "waitRoot"
    /\ exploredNodeChannel # <<>>
    /\ exploredNodeChannel' = Tail(exploredNodeChannel)
    /\ \E ord \in Orders :
         LET exploredNode == Head(exploredNodeChannel)
             h1 == decrementReference(
                       processExploredNode(heap, exploredNode, ord, cfg.fn), exploredNode)
         IN IF h1.n[rootNode].explorationStatus = Archived
            THEN Descend(h1, coord.move)
            ELSE /\ heap' = h1
                 /\ UNCHANGED <<rootNode, deleters, workers, coord>>
    /\ UNCHANGED <<cfg, game, moveListener, bestMoveChannelReceiver,
                   nextMoveChannelReceiver, unexploredNodeReceiverChannel,
                   pendingDecrements, delayed, clients, sent, placed, requeued>>

\* The nodes with a decrementReference goroutine that has not run yet.
Pending == {x \in NodeIds : pendingDecrements[x] > 0}

\* case exploredNode := <-this.exploredNodeChannel (expectimax.go 133-136).
CoordExplored ==
    /\ coord.pc = "select"
    /\ Cardinality(Pending) < MaxPending
    /\ exploredNodeChannel # <<>>
    /\ exploredNodeChannel' = Tail(exploredNodeChannel)
    /\ \E ord \in Orders :
         heap' = processExploredNode(heap, Head(exploredNodeChannel), ord, cfg.fn)
    /\ pendingDecrements' = [pendingDecrements EXCEPT ![Head(exploredNodeChannel)] = @ + 1]
    /\ coord' = [coord EXCEPT !.pc = LoopEnd(heap', rootNode)]
    /\ workers' = Terminate(workers, coord'.pc)
    /\ UNCHANGED <<cfg, rootNode, game, moveListener, bestMoveChannelReceiver,
                   nextMoveChannelReceiver, unexploredNodeReceiverChannel, deleters,
                   delayed, clients, sent, placed, requeued>>

\* go exploredNode.decrementReference() (expectimax.go 136).
AsyncDecrement ==
    /\ Alive
    /\ \E x \in NodeIds :
         /\ pendingDecrements[x] > 0
         /\ heap' = decrementReference(heap, x)
         /\ pendingDecrements' = [pendingDecrements EXCEPT ![x] = @ - 1]
    /\ UNCHANGED <<cfg, rootNode, game, moveListener, bestMoveChannelReceiver,
                   nextMoveChannelReceiver, unexploredNodeReceiverChannel,
                   exploredNodeChannel, coord, workers, deleters, delayed, clients,
                   sent, placed, requeued>>

\* A test that never sees the moves waiting.
MovesWaiting_Never == FALSE

\* len(moveListener) > 0 (expectimax.go 139, 148).
MovesWaiting == Len(moveListener) > 0

\* The warm-up test of sendBestMove and of the next-move case.
WarmUp(h, r, maxNodeCount) ==
    /\ h.n[r].descendentCount < maxNodeCount \div WarmUpDivisor
    /\ h.n[r].mostLikelyUnexploredDescendent # NoNode

IsCurrentlySearching ==
    /\ heap.n[rootNode].descendentCount < cfg.maxNodeCount
    /\ \/ heap.n[rootNode].mostLikelyUnexploredDescendent # NoNode
       \/ Len(unexploredNodeReceiverChannel) # cfg.workers
       \/ Len(exploredNodeChannel) # 0

\* The loop with the comparison turned round.
RECURSIVE bestChild_Least(_, _, _, _)
bestChild_Least(h, r, keys, best) ==
    IF keys = <<>> THEN best
    ELSE LET childValue == h.n[h.n[r].children[Head(keys)]].value
         IN IF best[1] = NoMove \/ RLess(childValue, best[2])
            THEN bestChild_Least(h, r, Tail(keys), <<Head(keys), childValue>>)
            ELSE bestChild_Least(h, r, Tail(keys), best)

\* The loop of sendBestMove over rootNode.children taken in the order keys.
RECURSIVE bestChild(_, _, _, _)
bestChild(h, r, keys, best) ==
    IF keys = <<>> THEN best
    ELSE LET childValue == h.n[h.n[r].children[Head(keys)]].value
         IN IF best[1] = NoMove \/ RLess(best[2], childValue)
            THEN bestChild(h, r, Tail(keys), <<Head(keys), childValue>>)
            ELSE bestChild(h, r, Tail(keys), best)

\* What the history keeps of a reply: the value sent, and what the coordinator
\* saw when it sent it.
Reply(value) ==
    [value |-> value,
     queued |-> Len(moveListener),
     descendentCount |-> heap.n[rootNode].descendentCount,
     frontier |-> heap.n[rootNode].mostLikelyUnexploredDescendent # NoNode,
     childValues |-> [m \in DOMAIN heap.n[rootNode].children |->
                         heap.n[heap.n[rootNode].children[m]].value],
     rootGame |-> heap.n[rootNode].game,
     game |-> game]

\* A send on the unbuffered reply channel ch: taken by a goroutine receiving on it.
Deliver(ch, value) ==
    /\ \E c \in Clients :
         /\ clients[c].pc = "waiting"
         /\ clients[c].chan = ch
         /\ clients' = [clients EXCEPT ![c].pc = "received", ![c].got = value]
    /\ sent' = [sent EXCEPT ![ch] = Append(@, Reply(value))]

\* case bestMoveChannel := <-this.bestMoveChannelReceiver (expectimax.go 138-145)
\* with sendBestMove (54-73).
CoordBestMove ==
    /\ coord.pc = "select"
    /\ bestMoveChannelReceiver # <<>>
    /\ LET bestMoveChannel == Head(bestMoveChannelReceiver)
       IN IF MovesWaiting
          THEN /\ bestMoveChannelReceiver' =
                      Append(Tail(bestMoveChannelReceiver), bestMoveChannel)
               /\ requeued' = requeued \cup {bestMoveChannel}
               /\ UNCHANGED <<delayed, clients, sent>>
          ELSE /\ bestMoveChannelReceiver' = Tail(bestMoveChannelReceiver)
               /\ UNCHANGED requeued
               /\ IF WarmUp(heap, rootNode, cfg.maxNodeCount)
                  THEN /\ delayed' = delayed \cup {<<"best", bestMoveChannel>>}
                       /\ UNCHANGED <<clients, sent>>
                  ELSE /\ \E ord \in Orders :
                            Deliver(bestMoveChannel,
                                    BestMoveReply(
                                        bestChild(heap, rootNode,
                                                  Filter(ord, DOMAIN heap.n[rootNode].children),
                                                  <<NoMove, RZero>>)[1]))
                       /\ UNCHANGED delayed
    /\ coord' = [coord EXCEPT !.pc = LoopEnd(heap, rootNode)]
    /\ workers' = Terminate(workers, coord'.pc)
    /\ UNCHANGED <<cfg, heap, rootNode, game, moveListener, nextMoveChannelReceiver,
                   unexploredNodeReceiverChannel, exploredNodeChannel, deleters,
                   pendingDecrements, placed>>

\* The receive of the best-move case when moves are waiting (expectimax.go
\* 138-139): the coordinator holds the reply channel it has taken.
CoordTakesBest ==
    /\ coord.pc = "select"
    /\ bestMoveChannelReceiver # <<>>
    /\ MovesWaiting
    /\ Cardinality(requeued) < MaxRequeues
    /\ bestMoveChannelReceiver' = Tail(bestMoveChannelReceiver)
    /\ coord' = [coord EXCEPT !.pc = "requeueBest", !.held = Head(bestMoveChannelReceiver)]
    /\ UNCHANGED <<cfg, heap, rootNode, game, moveListener, nextMoveChannelReceiver,
                   unexploredNodeReceiverChannel, exploredNodeChannel, workers, deleters,
                   pendingDecrements, delayed, clients, sent, placed, requeued>>

\* this.bestMoveChannelReceiver <- bestMoveChannel (expectimax.go 141-142): the
\* send waits for room on the channel.
CoordRequeuesBest ==
    /\ coord.pc = "requeueBest"
    /\ Len(bestMoveChannelReceiver) < RequestChannelCap
    /\ bestMoveChannelReceiver' = Append(bestMoveChannelReceiver, coord.held)
    /\ requeued' = requeued \cup {coord.held}
    /\ coord' = [coord EXCEPT !.pc = LoopEnd(heap, rootNode), !.held = <<>>]
    /\ workers' = Terminate(workers, coord'.pc)
    /\ UNCHANGED <<cfg, heap, rootNode, game, moveListener, nextMoveChannelReceiver,
                   unexploredNodeReceiverChannel, exploredNodeChannel, deleters,
                   pendingDecrements, delayed, clients, sent, placed>>

\* case nextMoveChannel := <-this.nextMoveChannelReceiver (expectimax.go 147-167).
CoordNextMove ==
    /\ coord.pc = "select"
    /\ nextMoveChannelReceiver # <<>>
    /\ LET nextMoveChannel == Head(nextMoveChannelReceiver)
       IN IF MovesWaiting
          THEN /\ nextMoveChannelReceiver' =
                      Append(Tail(nextMoveChannelReceiver), nextMoveChannel)
               /\ requeued' = requeued \cup {nextMoveChannel}
               /\ UNCHANGED <<delayed, clients, sent>>
          ELSE /\ nextMoveChannelReceiver' = Tail(nextMoveChannelReceiver)
               /\ UNCHANGED requeued
               /\ IF WarmUp(heap, rootNode, cfg.maxNodeCount) /\ IsCurrentlySearching
                  THEN /\ delayed' = delayed \cup {<<"next", nextMoveChannel>>}
                       /\ UNCHANGED <<clients, sent>>
                  ELSE /\ Deliver(nextMoveChannel,
                                  NextMoveReply(
                                      [m \in DOMAIN heap.n[rootNode].children |->
                                          heap.n[heap.n[rootNode].children[m]].value]))
                       /\ UNCHANGED delayed
    /\ coord' = [coord EXCEPT !.pc = LoopEnd(heap, rootNode)]
    /\ workers' = Terminate(workers, coord'.pc)
    /\ UNCHANGED <<cfg, heap, rootNode, game, moveListener, bestMoveChannelReceiver,
                   unexploredNodeReceiverChannel, exploredNodeChannel, deleters,
                   pendingDecrements, placed>>

\* The goroutines of expectimax.go 57-60 and 156-159: after the sleep, put the
\* request back.
DelayedRequeue ==
    /\ Alive
    /\ \E d \in delayed :
         /\ delayed' = delayed \ {d}
         /\ IF d[1] = "best"
            THEN /\ Len(bestMoveChannelReceiver) < RequestChannelCap
                 /\ bestMoveChannelReceiver' = Append(bestMoveChannelReceiver, d[2])
                 /\ UNCHANGED nextMoveChannelReceiver
            ELSE /\ Len(nextMoveChannelReceiver) < RequestChannelCap
                 /\ nextMoveChannelReceiver' = Append(nextMoveChannelReceiver, d[2])
                 /\ UNCHANGED bestMoveChannelReceiver
    /\ UNCHANGED <<cfg, heap, rootNode, game, moveListener,
                   unexploredNodeReceiverChannel, exploredNodeChannel, coord, workers,
                   deleters, pendingDecrements, clients, sent, placed, requeued>>

\* A frontier case that forgets the budget test.
WithinBudget_NoTest(h, r, maxNodeCount) == TRUE

\* this.rootNode.descendentCount < this.maxNodeCount (expectimax.go 171).
WithinBudget(h, r, maxNodeCount) == h.n[r].descendentCount < maxNodeCount

\* A frontier case that loses the request it does not answer.
putBack_Dropped(channel) == Tail(channel)

\* this.unexploredNodeReceiverChannel <- unexploredNodeReceiver, after the
\* receive of the case (expectimax.go 169, 187).
putBack(channel) == Append(Tail(channel), Head(channel))

\* case unexploredNodeReceiver := <-this.unexploredNodeReceiverChannel
\* (expectimax.go 169-188).
CoordFrontier ==
    /\ coord.pc = "select"
    /\ unexploredNodeReceiverChannel # <<>>
    /\ LET w == Head(unexploredNodeReceiverChannel)
           unexploredNode == heap.n[rootNode].mostLikelyUnexploredDescendent
       IN IF unexploredNode # NoNode /\ WithinBudget(heap, rootNode, cfg.maxNodeCount)
          THEN /\ unexploredNodeReceiverChannel' = Tail(unexploredNodeReceiverChannel)
               /\ IF heap.n[unexploredNode].markedForDeletion
                  THEN \* continue: the end of the iteration is skipped
                       UNCHANGED <<heap, workers, coord>>
                  ELSE IF heap.n[unexploredNode].explorationStatus # Unexplored
                  THEN \* log.Fatal
                       /\ coord' = [coord EXCEPT !.pc = "crashed"]
                       /\ UNCHANGED <<heap, workers>>
                  ELSE /\ \E ord \in Orders :
                            heap' = setWaitingForExploration(
                                        incrementReference(heap, unexploredNode),
                                        unexploredNode, ord)
                       /\ coord' = [coord EXCEPT !.pc = LoopEnd(heap', rootNode)]
                       /\ workers' = Terminate(
                              [workers EXCEPT ![w].pc = "explore", ![w].node = unexploredNode],
                              coord'.pc)
          ELSE /\ unexploredNodeReceiverChannel' = putBack(unexploredNodeReceiverChannel)
               /\ coord' = [coord EXCEPT !.pc = LoopEnd(heap, rootNode)]
               /\ workers' = Terminate(workers, coord'.pc)
               /\ UNCHANGED heap
    /\ UNCHANGED <<cfg, rootNode, game, moveListener, bestMoveChannelReceiver,
                   nextMoveChannelReceiver, exploredNodeChannel, deleters,
                   pendingDecrements, delayed, clients, sent, placed, requeued>>

\* ----------------------------------------------------------------- workers
\* ExploreNodeThread (worker.go 9-17).  A worker is at "start" (the loop test),
\* "waiting" (receiving on its reply channel), in Explore ("explore", then
\* "getgame" while GetGame walks up the parents, then "expand"), at "send" or
\* "exited".  stack holds the nodes GetGame has taken a reference on, the
\* innermost call first.
Holding(w) ==
    w \in DOMAIN workers /\ workers[w].pc \in {"explore", "getgame", "incr", "expand", "send"}

WorkerUnchanged ==
    UNCHANGED <<cfg, rootNode, game, moveListener, bestMoveChannelReceiver,
                nextMoveChannelReceiver, coord, deleters, pendingDecrements, delayed,
                clients, sent, placed, requeued>>

\* for !worker.terminate { worker.unexploredNodeReceiverChannel <- unexploredNodeChannel
WorkerRequest(w) ==
    /\ Alive
    /\ workers[w].pc = "start"
    /\ IF workers[w].terminate
       THEN /\ workers' = [workers EXCEPT ![w].pc = "exited"]
            /\ UNCHANGED unexploredNodeReceiverChannel
       ELSE /\ Len(unexploredNodeReceiverChannel) < cfg.workers
            /\ unexploredNodeReceiverChannel' = Append(unexploredNodeReceiverChannel, w)
            /\ workers' = [workers EXCEPT ![w].pc = "waiting"]
    /\ UNCHANGED <<heap, exploredNodeChannel>>
    /\ WorkerUnchanged

\* Explore up to GetGame's reading of the node's own game (node.go 317-329,
\* 187-194).
WorkerExplore(w) ==
    /\ Alive
    /\ workers[w].pc = "explore"
    /\ LET node == workers[w].node
           h1 == ExploreBegin(heap, node)
       IN IF heap.n[node].markedForDeletion
          THEN /\ workers' = [workers EXCEPT ![w].pc = "send"]
               /\ UNCHANGED heap
          ELSE IF h1.n[node].game # NoGame
          THEN /\ heap' = h1
               /\ workers' = [workers EXCEPT ![w].pc = "expand", ![w].res = h1.n[node].game]
          ELSE /\ heap' = incrementReference(h1, node)
               /\ workers' = [workers EXCEPT ![w].pc = "getgame", ![w].stack = <<node>>]
    /\ UNCHANGED <<unexploredNodeReceiverChannel, exploredNodeChannel>>
    /\ WorkerUnchanged

\* GetGame returning parentGame through the calls on stack (node.go 203-208 and
\* the deferred decrementReference of each): <<the heap, the game returned>>.
RECURSIVE returnGame(_, _, _)
returnGame(h, stack, parentGame) ==
    IF stack = <<>> THEN <<h, parentGame>>
    ELSE returnGame(decrementReference(h, Head(stack)), Tail(stack),
                    IF parentGame = NoGame THEN NoGame
                    ELSE MakeMove(parentGame, h.n[Head(stack)].lastMove))

\* GetGame in the call on Head(stack): the parent is read and GetGame entered
\* on it (node.go 196-202, 187-194).
WorkerGetGame(w) ==
    /\ Alive
    /\ workers[w].pc = "getgame"
    /\ LET node == Head(workers[w].stack)
           parent == heap.n[node].parent
           done(parentGame) ==
               LET r == returnGame(heap, workers[w].stack, parentGame)
               IN /\ heap' = r[1]
                  /\ workers' = [workers EXCEPT ![w].pc = "expand", ![w].stack = <<>>,
                                                ![w].res = r[2]]
       IN IF parent = NoNode THEN done(NoGame)
          ELSE IF heap.n[parent].markedForDeletion THEN done(NoGame)
          ELSE IF heap.n[parent].game # NoGame THEN done(heap.n[parent].game)
          ELSE /\ heap' = incrementReference(heap, parent)
               /\ workers' = [workers EXCEPT ![w].stack = <<parent>> \o @]
    /\ UNCHANGED <<unexploredNodeReceiverChannel, exploredNodeChannel>>
    /\ WorkerUnchanged

\* Explore after GetGame (node.go 331-357).
WorkerExpand(w) ==
    /\ Alive
    /\ workers[w].pc = "expand"
    /\ workers[w].res # NoGame =>
           Len(GetPossibleMoves(workers[w].res, cfg.branch)) <= Cardinality(heap.pool)
    /\ \E ord \in Orders :
         heap' = ExploreFinish(heap, workers[w].node, workers[w].res, cfg.branch, ord, cfg.fn)
    /\ workers' = [workers EXCEPT ![w].pc = "send", ![w].res = NoGame]
    /\ UNCHANGED <<unexploredNodeReceiverChannel, exploredNodeChannel>>
    /\ WorkerUnchanged

\* worker.exploredNodeChannel <- parent
WorkerSend(w) ==
    /\ Alive
    /\ workers[w].pc = "send"
    /\ Len(exploredNodeChannel) < ExploredFactor * cfg.workers
    /\ exploredNodeChannel' = Append(exploredNodeChannel, workers[w].node)
    /\ workers' = [workers EXCEPT ![w].pc = "start", ![w].node = NoNode]
    /\ UNCHANGED <<heap, unexploredNodeReceiverChannel>>
    /\ WorkerUnchanged

\* incrementReference is not atomic (node.go 100-107: "Needs to be atomic"):
\* GetGame entered on a parent that holds a game (node.go 187-190), split at the
\* read of parent.referenceCount.  seen keeps the parent and the count read.
WorkerGetGameRead(w) ==
    /\ Alive
    /\ workers[w].pc = "getgame"
    /\ LET parent == heap.n[Head(workers[w].stack)].parent
       IN /\ parent # NoNode
          /\ ~heap.n[parent].markedForDeletion
          /\ heap.n[parent].game # NoGame
          /\ workers' = [workers EXCEPT ![w].pc = "incr",
                                        ![w].seen = <<parent, heap.n[parent].referenceCount>>]
    /\ UNCHANGED <<heap, unexploredNodeReceiverChannel, exploredNodeChannel>>
    /\ WorkerUnchanged

\* The write of node.referenceCount++ with the count read before, then the
\* rest of GetGame on the parent (node.go 105, 192-194 and its deferred
\* decrementReference) and the return through the calls on stack.
WorkerGetGameWrite(w) ==
    /\ Alive
    /\ workers[w].pc = "incr"
    /\ LET parent == workers[w].seen[1]
           h1 == [heap EXCEPT !.n[parent].referenceCount = workers[w].seen[2] + 1]
           r == returnGame(decrementReference(h1, parent), workers[w].stack,
                           h1.n[parent].game)
       IN /\ heap' = r[1]
          /\ workers' = [workers EXCEPT ![w].pc = "expand", ![w].stack = <<>>,
                                        ![w].res = r[2], ![w].seen = <<>>]
    /\ UNCHANGED <<unexploredNodeReceiverChannel, exploredNodeChannel>>
    /\ WorkerUnchanged

Worker ==
    \E w \in DOMAIN workers :
        \/ WorkerRequest(w)
        \/ WorkerExplore(w)
        \/ WorkerGetGame(w)
        \/ WorkerExpand(w)
        \/ WorkerSend(w)

\* The workers with the steps of the increment that is not atomic.
WorkerRace ==
    \/ Worker
    \/ \E w \in DOMAIN workers : WorkerGetGameRead(w) \/ WorkerGetGameWrite(w)

\* ---------------------------------------------------- deleteTree goroutines
\* A goroutine is the stack of its deleteTree calls, the innermost first; a call
\* keeps the keys of node.children it has still to visit.  Only the outermost
\* call can be waiting to be entered.
DeleterUnchanged ==
    UNCHANGED <<cfg, rootNode, game, moveListener, bestMoveChannelReceiver,
                nextMoveChannelReceiver, unexploredNodeReceiverChannel,
                exploredNodeChannel, coord, workers, pendingDecrements, delayed,
                clients, sent, placed, requeued>>

SetTask(i, task) ==
    IF task = <<>>
    THEN [j \in 1..(Len(deleters) - 1) |-> IF j < i THEN deleters[j] ELSE deleters[j + 1]]
    ELSE [deleters EXCEPT ![i] = task]

\* deleteTree up to its loop (node.go 118-123): the heap with node marked.
deleteTreeEnter(h, node) ==
    [incrementReference(h, node) EXCEPT !.n[node].markedForDeletion = TRUE]

DeleteEnter(i) ==
    /\ Alive
    /\ ~Head(deleters[i]).entered
    /\ LET call == Head(deleters[i])
       IN IF heap.n[call.node].markedForDeletion
          THEN /\ deleters' = SetTask(i, Tail(deleters[i]))
               /\ UNCHANGED heap
          ELSE \E ord \in Orders :
               /\ heap' = deleteTreeEnter(heap, call.node)
               /\ deleters' = SetTask(i,
                      <<[call EXCEPT !.entered = TRUE,
                                     !.keys = Filter(ord, DOMAIN heap.n[call.node].children)]>>
                      \o Tail(deleters[i]))
    /\ DeleterUnchanged

\* One turn of the loop over node.children (node.go 124-129), with the entry of
\* the child's deleteTree (118-123); a child without children is left at once.
DeleteChild(i) ==
    /\ Alive
    /\ Head(deleters[i]).entered
    /\ Head(deleters[i]).keys # <<>>
    /\ LET call == Head(deleters[i])
           childNode == heap.n[call.node].children[Head(call.keys)]
           rest == <<[call EXCEPT !.keys = Tail(@)]>> \o Tail(deleters[i])
           h1 == [heap EXCEPT !.n[childNode].parent = NoNode]
       IN IF childNode = call.exempt \/ h1.n[childNode].markedForDeletion
          THEN /\ heap' = h1
               /\ deleters' = SetTask(i, rest)
          ELSE IF h1.n[childNode].children = <<>>
          THEN /\ heap' = decrementReference(deleteTreeEnter(h1, childNode), childNode)
               /\ deleters' = SetTask(i, rest)
          ELSE \E ord \in Orders :
               /\ heap' = deleteTreeEnter(h1, childNode)
               /\ deleters' = SetTask(i,
                      <<[node |-> childNode, exempt |-> NoNode, entered |-> TRUE,
                         keys |-> Filter(ord, DOMAIN h1.n[childNode].children)]>> \o rest)
    /\ DeleterUnchanged

\* The deferred decrementReference of deleteTree.
DeleteExit(i) ==
    /\ Alive
    /\ Head(deleters[i]).entered
    /\ Head(deleters[i]).keys = <<>>
    /\ heap' = decrementReference(heap, Head(deleters[i]).node)
    /\ deleters' = SetTask(i, Tail(deleters[i]))
    /\ DeleterUnchanged

Deleter ==
    \E i \in 1..Len(deleters) : DeleteEnter(i) \/ DeleteChild(i) \/ DeleteExit(i)

\* -------------------------------------------------------- game and clients
\* The real game makes a move and tells the move listener.
GameMove ==
    /\ Alive
    /\ coord.pc # "start"
    /\ ~IsGameOver(game)
    /\ Len(game) - 1 < cfg.moves
    /\ Len(moveListener) < MoveListenerCap
    /\ \E move \in Range(GetPossibleMoves(game, cfg.branch)) :
         /\ game' = MakeMove(game, move)
         /\ moveListener' = Append(moveListener, move)
    /\ UNCHANGED <<cfg, heap, rootNode, bestMoveChannelReceiver, nextMoveChannelReceiver,
                   unexploredNodeReceiverChannel, exploredNodeChannel, coord, workers,
                   deleters, pendingDecrements, delayed, clients, sent, placed, requeued>>

\* GetBestMove / GetNextMoveValues up to the receive (expectimax.go 28-30, 36-38).
ClientSends(c, kinds) ==
    /\ Alive
    /\ c <= cfg.clients
    /\ clients[c].pc = "idle"
    /\ clients[c].calls < cfg.calls
    /\ \E kind \in kinds :
         LET ch == NewReplyChannel(c, clients[c].calls + 1)
         IN /\ clients' = [clients EXCEPT ![c].pc = "waiting", ![c].chan = ch,
                                          ![c].calls = @ + 1]
            /\ placed' = [placed EXCEPT ![ch] = Append(@, <<c, clients[c].calls + 1>>)]
            /\ IF kind = "best"
               THEN /\ Len(bestMoveChannelReceiver) < RequestChannelCap
                    /\ bestMoveChannelReceiver' = Append(bestMoveChannelReceiver, ch)
                    /\ UNCHANGED nextMoveChannelReceiver
               ELSE /\ Len(nextMoveChannelReceiver) < RequestChannelCap
                    /\ nextMoveChannelReceiver' = Append(nextMoveChannelReceiver, ch)
                    /\ UNCHANGED bestMoveChannelReceiver
    /\ UNCHANGED <<cfg, heap, rootNode, game, moveListener,
                   unexploredNodeReceiverChannel, exploredNodeChannel, coord, workers,
                   deleters, pendingDecrements, delayed, sent, requeued>>

ClientCall(c) == ClientSends(c, {"best", "next"})

\* return <-bestMoveChannel (expectimax.go 32, 40).
ClientReturn(c) ==
    /\ Alive
    /\ clients[c].pc = "received"
    /\ clients' = [clients EXCEPT ![c].pc = "idle",
                                  ![c].ret = Append(@, [call |-> <<c, clients[c].calls>>,
                                                        value |-> clients[c].got])]
    /\ UNCHANGED <<cfg, heap, rootNode, game, moveListener, bestMoveChannelReceiver,
                   nextMoveChannelReceiver, unexploredNodeReceiverChannel,
                   exploredNodeChannel, coord, workers, deleters, pendingDecrements,
                   delayed, sent, placed, requeued>>

Client == \E c \in Clients : ClientCall(c) \/ ClientReturn(c)

\* Many goroutines calling GetBestMove, one after the other and each at
\* the receive of its reply.
Crowd ==
    \E c \in Clients :
        /\ \A b \in 1..(c - 1) : clients[b].calls > 0
        /\ ClientSends(c, {"best"})

\* The search alone: the game makes no move and nobody asks.
NextSearch ==
    \/ Start
    \/ CoordExplored
    \/ CoordFrontier
    \/ AsyncDecrement
    \/ Worker

\* The search with the reads and writes of referenceCount interleaved.
NextRace ==
    \/ Start
    \/ CoordExplored
    \/ CoordFrontier
    \/ AsyncDecrement
    \/ WorkerRace

\* The search while the real game moves and a crowd asks for the best move:
\* the coordinator comes to the best-move case when moves are waiting, and
\* its requeue is taken as its receive and its send.
NextCrowd ==
    \/ Start
    \/ CoordExplored
    \/ CoordFrontier
    \/ AsyncDecrement
    \/ Worker
    \/ CoordMove
    \/ GameMove
    \/ CoordTakesBest
    \/ CoordRequeuesBest
    \/ Crowd

\* The search while the real game moves.
NextMoves ==
    \/ NextSearch
    \/ CoordMove
    \/ CoordWaitRoot
    \/ Deleter
    \/ GameMove

\* The search with clients asking, the game making no move.
NextClients ==
    \/ NextSearch
    \/ CoordBestMove
    \/ CoordNextMove
    \/ DelayedRequeue
    \/ Client

Next ==
    \/ NextMoves
    \/ CoordBestMove
    \/ CoordNextMove
    \/ DelayedRequeue
    \/ Client

InitSearch ==
    InitWith([branch : 1..MaxBranch, fn : LikelihoodFns, maxNodeCount : {SmallBudget, MidBudget},
              workers : 1..NumWorkers, clients : {0}, calls : {0}, moves : {0}], {NewGame(GameLen)})

InitMoves ==
    \/ InitWith([branch : {MaxBranch}, fn : {"greedy"}, maxNodeCount : {SmallBudget},
                 workers : {1}, clients : {0}, calls : {0}, moves : {MaxMoves}], {NewGame(MaxMoves)})
    \/ InitWith([branch : {MaxBranch}, fn : {"greedy"}, maxNodeCount : {SmallBudget},
                 workers : {NumWorkers}, clients : {0}, calls : {0}, moves : {1}], {NewGame(1)})

InitClients ==
    InitWith([branch : {MaxBranch}, fn : {"greedy"}, maxNodeCount : {SmallBudget, LargeBudget},
              workers : {1}, clients : {NumClients}, calls : {MaxCalls}, moves : {0}],
             {NewGame(len) : len \in 0..2})

Init ==
    InitWith([branch : {1}, fn : {"greedy"}, maxNodeCount : {SmallBudget, LargeBudget},
              workers : {1}, clients : {NumClients}, calls : {MaxCalls}, moves : {1}],
             {NewGame(2)})

\* Two workers and one real move that ends the game: the old root's subtree
\* is retired while the workers still hold nodes of it.
InitRetire ==
    InitWith([branch : {MaxBranch}, fn : {"greedy"}, maxNodeCount : {SmallBudget},
              workers : {NumWorkers}, clients : {0}, calls : {0}, moves : {1}], {NewGame(1)})

\* A search on a game whose MakeMove returns an error for its last listed move.
InitRefuse ==
    InitWith([branch : {MaxBranch}, fn : LikelihoodFns, maxNodeCount : {SmallBudget, MidBudget},
              workers : {1}, clients : {0}, calls : {0}, moves : {0}],
             {RefusingGame(GameLen, MaxBranch)})

\* One worker, with the goroutine of "go exploredNode.decrementReference()"
\* running beside it.
InitRace ==
    InitWith([branch : {MaxBranch}, fn : {"greedy"}, maxNodeCount : {SmallBudget, MidBudget},
              workers : {1}, clients : {0}, calls : {0}, moves : {0}], {NewGame(GameLen)})

\* One more goroutine calling GetBestMove than bestMoveChannelReceiver holds.
InitCrowd ==
    InitWith([branch : {1}, fn : {"greedy"}, maxNodeCount : {SmallBudget},
              workers : {1}, clients : {RequestChannelCap + 1}, calls : {1}, moves : {1}],
             {NewGame(1)})

SpecSearch == InitSearch /\ [][NextSearch]_vars
SpecCrowd == InitCrowd /\ [][NextCrowd]_vars
SpecRace == InitRace /\ [][NextRace]_vars
SpecRefuse == InitRefuse /\ [][NextSearch]_vars
SpecMoves == InitMoves /\ [][NextMoves]_vars
SpecRetire == InitRetire /\ [][NextMoves]_vars

\* A step of worker w as the other goroutines see it: the last step of Explore
\* (node.go 331-357) always ends, so it is written here by its guard and its
\* effect on the worker alone.
ExpandEnds(w) ==
    /\ Alive
    /\ workers[w].pc = "expand"
    /\ workers[w].res # NoGame =>
           Len(GetPossibleMoves(workers[w].res, cfg.branch)) <= Cardinality(heap.pool)
    /\ workers' = [workers EXCEPT ![w].pc = "send", ![w].res = NoGame]

WorkerStep(w) ==
    /\ w \in DOMAIN workers
    /\ \/ WorkerRequest(w)
       \/ WorkerExplore(w)
       \/ WorkerGetGame(w)
       \/ ExpandEnds(w)
       \/ WorkerSend(w)

\* The cases of the coordinator's select (expectimax.go 107-189) as the channels
\* see them: a receive from moveListener (108), from exploredNodeChannel (121,
\* 133) and from unexploredNodeReceiverChannel (169), which is either kept
\* (172-184) or put back (187).
TakesMove ==
    /\ coord.pc = "select"
    /\ moveListener # <<>>
    /\ moveListener' = Tail(moveListener)

TakesExplored ==
    /\ coord.pc \in {"select", "waitRoot"}
    /\ coord.pc = "select" => Cardinality(Pending) < MaxPending
    /\ exploredNodeChannel # <<>>
    /\ exploredNodeChannel' = Tail(exploredNodeChannel)

TakesFrontier ==
    /\ coord.pc = "select"
    /\ unexploredNodeReceiverChannel # <<>>
    /\ IF /\ heap.n[rootNode].mostLikelyUnexploredDescendent # NoNode
          /\ WithinBudget(heap, rootNode, cfg.maxNodeCount)
       THEN unexploredNodeReceiverChannel' = Tail(unexploredNodeReceiverChannel)
       ELSE unexploredNodeReceiverChannel' = putBack(unexploredNodeReceiverChannel)

\* The Go scheduler runs every goroutine that can take a step: each worker,
\* the deleteTree goroutines and the decrementReference goroutines.  A select
\* with several ready cases picks one at random, so a case that is ready again
\* and again is taken.
Fairness ==
    /\ \A w \in 1..NumWorkers : WF_workers(WorkerStep(w))
    /\ WF_vars(Deleter)
    /\ WF_vars(AsyncDecrement)
    /\ SF_moveListener(TakesMove)
    /\ SF_exploredNodeChannel(TakesExplored)
    /\ SF_unexploredNodeReceiverChannel(TakesFrontier)

SpecRetireFair == SpecRetire /\ Fairness
SpecClients == InitClients /\ [][NextClients]_vars
Spec == Init /\ [][Next]_vars

\* ------------------------------------------------------------------ claims
\* The calls client c has made so far.
Calls == {<<c, k>> \in Clients \X (1..MaxCalls) : k <= clients[c].calls}

\* The reply channels call has put on a request channel.
PlacedBy(call) == {ch \in ReplyChannels : \E i \in 1..Len(placed[ch]) : placed[ch][i] = call}

\* C1: GetBestMove and GetNextMoveValues are a one-shot handshake.  Every call
\* has put exactly one reply channel on a request channel, and no other call
\* has put that channel there (it is fresh); at most one reply is sent on a
\* channel; and every value a call has returned is the value that was sent on
\* the channel of that very call.
C1_OneShotHandshake ==
    /\ \A call \in Calls :
         /\ Cardinality(PlacedBy(call)) = 1
         /\ \A ch \in PlacedBy(call) : placed[ch] = <<call>>
    /\ \A ch \in ReplyChannels : Len(sent[ch]) <= 1
    /\ \A c \in Clients : \A i \in 1..Len(clients[c].ret) :
         LET r == clients[c].ret[i]
         IN /\ r.call[1] = c
            /\ \A ch \in PlacedBy(r.call) :
                 /\ Len(sent[ch]) = 1
                 /\ sent[ch][1].value = r.value

\* A client has returned from two calls, the second with a move of the root.
C1_Witness ==
    \E c \in Clients :
        /\ Len(clients[c].ret) = 2
        /\ clients[c].ret[2].value.kind = "best"
        /\ clients[c].ret[2].value.move # NoMove
        /\ clients[c].ret[1].value # clients[c].ret[2].value

\* The statuses assigned to node x since it was taken from the pool, the
\* Unexplored of reset first.
StatusTrace(x) == heap.n[x].trace

StatusOrder == <<Unexplored, WaitingForExploration, Exploring, Explored, Archived>>

StatusSteps ==
    {<<Unexplored, WaitingForExploration>>, <<WaitingForExploration, Exploring>>,
     <<Exploring, Explored>>, <<Explored, Archived>>,
     <<Unexplored, Exploring>>, <<Exploring, Archived>>}

RECURSIVE Below(_, _, _, _, _, _)
Below(h, v, prod, d, top, frontier) ==
    {<<v, prod>>} \cup
    IF d = 0 \/ (frontier /\ ~top /\ h.n[v].explorationStatus # Archived) THEN {}
    ELSE UNION {Below(h, h.n[v].children[m],
                      RMul(prod, ExploreProbability(h.n[v], m)), d - 1, FALSE, frontier) :
                m \in DOMAIN h.n[v].children}

\* The subtree of r, and its frontier: the Unexplored nodes whose proper
\* ancestors below r are all Archived.
Subtree(h, r) == Below(h, r, ROne, GameLen, TRUE, FALSE)
Frontier(h, r) ==
    {p \in Below(h, r, ROne, GameLen, TRUE, TRUE) : h.n[p[1]].explorationStatus = Unexplored}

\* Worker w receives a node from the coordinator in this step.
HandedOut(w) ==
    /\ w \in DOMAIN workers
    /\ workers[w].pc = "waiting"
    /\ workers'[w].pc = "explore"

\* C3: whenever the coordinator hands a node to a worker, the node is
\* Unexplored, lies in the subtree of the current root, and its path product
\* from the root is at least that of every node of the root's frontier.
C3_HandsOutMostLikely ==
    [][\A w \in DOMAIN workers :
         HandedOut(w) =>
           /\ heap.n[workers'[w].node].explorationStatus = Unexplored
           /\ \E p \in Subtree(heap, rootNode) :
                /\ p[1] = workers'[w].node
                /\ \A q \in Frontier(heap, rootNode) : RLeq(q[2], p[2])]_vars

\* A worker holds a node two levels below the root that it was handed while the
\* frontier had another node, of smaller path product.
C3_Witness ==
    \E w \in DOMAIN workers :
        /\ workers[w].pc = "explore"
        /\ \E p \in Subtree(heap, rootNode) :
             /\ p[1] = workers[w].node
             /\ heap.n[p[1]].parent # NoNode
             /\ heap.n[heap.n[p[1]].parent].parent # NoNode
             /\ \E q \in Frontier(heap, rootNode) : RLess(q[2], p[2])

\* The workers that hold node x: handed x and not yet past the send of x on
\* exploredNodeChannel.
HoldersOf(x) == {w \in DOMAIN workers : Holding(w) /\ workers[w].node = x}

\* The coordinator explores the root inline in this step (the move case with
\* the root Unexplored).
InlineExplore ==
    /\ coord.pc = "select"
    /\ moveListener # <<>>
    /\ moveListener' = Tail(moveListener)
    /\ heap.n[rootNode].explorationStatus = Unexplored

\* C4: no node is ever held by two workers; a node is handed to a worker only
\* when no worker holds it, and the coordinator explores the root inline only
\* when no worker holds the root.
C4_OneExplorer ==
    [][/\ \A x \in NodeIds : Cardinality(HoldersOf(x)') <= 1
       /\ \A w \in DOMAIN workers : HandedOut(w) => HoldersOf(workers'[w].node) = {}
       /\ InlineExplore => HoldersOf(rootNode) = {}]_vars

\* Two workers are in Explore at once, on two nodes.
C4_Witness ==
    \E v, w \in DOMAIN workers :
        /\ v # w
        /\ workers[v].pc \in {"explore", "getgame", "expand"}
        /\ workers[w].pc \in {"explore", "getgame", "expand"}
        /\ workers[v].node # workers[w].node

\* C5 as claimed: the root's descendentCount is at most maxNodeCount plus the
\* number of workers.
C5_BudgetPlusWorkers ==
    heap.n[rootNode].descendentCount <= cfg.maxNodeCount + cfg.workers

\* The expansions that can be under way at once: one per worker and one per
\* place of exploredNodeChannel.
MaxInFlight == cfg.workers + ExploredFactor * cfg.workers

\* C5 amended: the root's descendentCount is at most maxNodeCount - 1 (the
\* largest count at which a node is still handed out) plus the largest number
\* of legal moves for each expansion that can be under way.
C5_BudgetPlusInFlight ==
    heap.n[rootNode].descendentCount <= cfg.maxNodeCount - 1 + cfg.branch * MaxInFlight

\* The root counts more descendents than maxNodeCount plus the number of workers.
C5_Witness ==
    /\ coord.pc = "select"
    /\ heap.n[rootNode].descendentCount > cfg.maxNodeCount + cfg.workers

\* No expansion is in flight: no worker holds a node and exploredNodeChannel
\* is empty.
NoExpansionInFlight ==
    /\ \A w \in DOMAIN workers : ~Holding(w)
    /\ exploredNodeChannel = <<>>

\* The nodes of the live tree.
LiveNodes == {p[1] : p \in Subtree(heap, rootNode)}

\* C6: whenever no expansion is in flight, every Explored or Archived node of
\* the live tree that has children has the value
\* sum of childLikelihood[m] * child.value over its children.
C6_ValueIsWeightedSum ==
    NoExpansionInFlight =>
        \A v \in LiveNodes :
            (/\ heap.n[v].explorationStatus \in {Explored, Archived}
             /\ heap.n[v].children # <<>>)
            => heap.n[v].value = WeightedValue(heap, v, Len(heap.n[v].children))

\* No expansion is in flight, and a child of the root has been expanded to a
\* value other than its heuristic, which the root's value has taken up.
C6_Witness ==
    /\ NoExpansionInFlight
    /\ coord.pc = "select"
    /\ \E v \in LiveNodes :
         /\ heap.n[v].parent = rootNode
         /\ heap.n[v].explorationStatus = Archived
         /\ heap.n[v].children # <<>>
         /\ heap.n[v].value # heap.n[v].heuristic
         /\ heap.n[rootNode].childLikelihood[heap.n[v].lastMove] # RZero

\* The sum of 1 + child.descendentCount over the first k children of v.
RECURSIVE CountOfChildren(_, _, _)
CountOfChildren(h, v, k) ==
    IF k = 0 THEN 0
    ELSE 1 + h.n[h.n[v].children[k]].descendentCount + CountOfChildren(h, v, k - 1)

CountsAddUp ==
    \A v \in LiveNodes :
        heap.n[v].descendentCount = CountOfChildren(heap, v, Len(heap.n[v].children))

RootAdvances == coord.pc # "start" /\ rootNode' # rootNode

C8_MovesBeforeReplies ==
    [][/\ Len(moveListener) > 0 =>
            /\ sent' = sent
            /\ Range(bestMoveChannelReceiver) \subseteq Range(bestMoveChannelReceiver')
            /\ Range(nextMoveChannelReceiver) \subseteq Range(nextMoveChannelReceiver')
       /\ sent' # sent => heap.n[rootNode].game = game]_vars

\* A request that was put back because a move was waiting has been answered,
\* from the root the move led to.
C8_Witness ==
    \E ch \in requeued :
        /\ Len(sent[ch]) = 1
        /\ sent[ch][1].queued = 0
        /\ Len(sent[ch][1].rootGame) > 1
        /\ sent[ch][1].rootGame = sent[ch][1].game

\* C9 as claimed: if the game is over when RunExpectimax starts, no node is
\* ever handed to a worker or explored: every node stays Unexplored and without
\* children.  (The game makes no move in SpecClients: game is the game at the
\* start.)
C9_NoExpansionWhenOver ==
    IsGameOver(game) =>
        \A x \in NodeIds :
            /\ StatusTrace(x) = <<Unexplored>>
            /\ heap.n[x].children = <<>>

\* The replies to best-move requests sent so far.
BestMoveReplies ==
    {r \in UNION {Range(sent[ch]) : ch \in ReplyChannels} : r.value.kind = "best"}

\* The warm-up condition as reply r found it.
WarmingUp(r) ==
    /\ r.descendentCount < cfg.maxNodeCount \div WarmUpDivisor
    /\ r.frontier

IsBestChild(r) ==
    /\ r.value.move \in DOMAIN r.childValues
    /\ \A m \in DOMAIN r.childValues : RLeq(r.childValues[m], r.childValues[r.value.move])

\* C10 as claimed: every reply to a best-move request is a key of the root's
\* children whose child has the largest value, sent with the warm-up condition
\* false.
C10_ReplyIsBestChild ==
    \A r \in BestMoveReplies : IsBestChild(r) /\ ~WarmingUp(r)

\* C10 amended: every reply to a best-move request is sent with the warm-up
\* condition false; it is nil if the root has no children, and otherwise a key
\* of the root's children whose child has the largest value.
C10_ReplyIsBestChildOrNil ==
    \A r \in BestMoveReplies :
        /\ ~WarmingUp(r)
        /\ IF DOMAIN r.childValues = {} THEN r.value.move = NoMove ELSE IsBestChild(r)

\* A best-move reply named the second of two children of different value, and
\* a best-move reply was nil.
C10_Witness ==
    /\ \E r \in BestMoveReplies :
         /\ Len(r.childValues) = 2
         /\ r.value.move = 2
         /\ RLess(r.childValues[1], r.childValues[2])
    /\ \E r \in BestMoveReplies : r.value.move = NoMove

\* The number of move events the coordinator has processed: the moves the real
\* game has made, less those still queued and the one taken but not yet applied.
Processed ==
    Len(game) - 1 - Len(moveListener) - (IF coord.pc = "waitRoot" THEN 1 ELSE 0)

\* C11: after the coordinator has processed the move events m1..mk, the root
\* node carries the initial game with m1..mk applied in order and has no
\* parent, for one and two workers and every interleaving of the workers and
\* the deleteTree goroutines.
C11_RootIsReplay ==
    Alive =>
        /\ heap.n[rootNode].game = SubSeq(game, 1, 1 + Processed)
        /\ heap.n[rootNode].parent = NoNode

\* Two moves have been processed while the old root's subtree was still being
\* deleted, and the root carries both.
C11_Witness ==
    /\ Alive
    /\ Processed = 2
    /\ Len(heap.n[rootNode].game) = 3
    /\ deleters # <<>>

\* Nothing is under way: the deleteTree goroutines have finished, no worker
\* holds a node, no expanded node waits to be processed and no asynchronous
\* decrementReference is left to run.
Quiescent ==
    /\ coord.pc \in {"select", "done"}
    /\ deleters = <<>>
    /\ Pending = {}
    /\ NoExpansionInFlight

\* Every node outside the subtree of the root is back in the pool.  Node 1 is
\* the node NewExpectimax allocated: RunExpectimax replaces it before the
\* search starts and it never belongs to a tree.
OldTreeReclaimed == \A x \in NodeIds \ (LiveNodes \cup {1}) : x \in heap.pool

\* No node of the root's subtree is marked for deletion or in the pool, and
\* none has been reset since it was made a child: every child still carries
\* its parent and its move.
SubtreeUntouched ==
    /\ \A x \in LiveNodes : ~heap.n[x].markedForDeletion /\ x \notin heap.pool
    /\ \A x \in LiveNodes : \A m \in DOMAIN heap.n[x].children :
         /\ heap.n[heap.n[x].children[m]].parent = x
         /\ heap.n[heap.n[x].children[m]].lastMove = m

\* C12 as claimed: after a root advancement, once deleteTree has finished and
\* every node in flight has been handed back and processed, every node of the
\* old tree outside the new root's subtree is reset and back in the pool; and
\* no node of the new root's subtree is ever marked for deletion or reset.
C12_OldTreeRetired ==
    (Alive /\ Processed >= 1) =>
        /\ SubtreeUntouched
        /\ Quiescent => OldTreeReclaimed

\* The nodes some actor is still going to use: the root, the node a worker
\* holds and those its GetGame stands on, the nodes on exploredNodeChannel, those
\* awaiting their asynchronous decrementReference, and those the deleteTree
\* calls are in or still have to visit.
InUse ==
    {rootNode}
    \cup {workers[w].node : w \in {v \in DOMAIN workers : Holding(v)}}
    \cup UNION {Range(workers[w].stack) : w \in DOMAIN workers}
    \cup Range(exploredNodeChannel)
    \cup Pending
    \cup UNION {UNION {{deleters[i][j].node} \cup
                       {heap.n[deleters[i][j].node].children[m] :
                            m \in Range(deleters[i][j].keys)
                                  \cap DOMAIN heap.n[deleters[i][j].node].children} :
                       j \in 1..Len(deleters[i])} :
                i \in 1..Len(deleters)}

\* The nodes that nodes outside the pool point to as their parent, as their
\* most likely unexplored descendent, or (in the root's subtree) as a child.
PointedAt ==
    {heap.n[y].parent : y \in NodeIds \ heap.pool}
    \cup {heap.n[y].mostLikelyUnexploredDescendent : y \in NodeIds \ heap.pool}
    \cup UNION {Range(heap.n[y].children) : y \in LiveNodes}

\* No node of the pool is in use or pointed at, and no reference count is
\* negative.
NoDanglingReference ==
    /\ heap.pool \cap (InUse \cup PointedAt) = {}
    /\ \A x \in NodeIds : heap.n[x].referenceCount >= 0

\* C13 as claimed: a node is put back into the pool only when nothing holds a reference
\* to it (decrementReference puts it there only if it is marked for deletion):
\* after every step no node of the pool is in use by an actor or pointed at by
\* a cache, a parent pointer or a child pointer of the live tree, and a node
\* that stays in the pool is not written (so it is not put there twice).
C13_PooledNodesAreFree ==
    [][/\ NoDanglingReference'
       /\ \A x \in heap.pool \cap heap'.pool : heap'.n[x] = heap.n[x]]_vars

\* C14 as claimed: once a node is marked for deletion no child is added to it
\* and it stays marked until it is reset on its return to the pool: in every
\* step that leaves a marked node outside the pool, the node is still marked
\* and has the children it had.
C14_MarkedIsFrozen ==
    [][\A x \in NodeIds :
         (heap.n[x].markedForDeletion /\ x \notin heap'.pool) =>
             /\ heap'.n[x].markedForDeletion
             /\ heap'.n[x].children = heap.n[x].children]_vars

\* C15 as claimed: every node that processExploredNode archives is Explored
\* at that moment, so that a node whose Explore was aborted never becomes an
\* Archived node: in the statuses a node has gone through, Archived comes
\* straight after Explored.
C15_ArchivedFromExplored ==
    \A x \in NodeIds : \A i \in 1..Len(StatusTrace(x)) :
        StatusTrace(x)[i] = Archived => (i > 1 /\ StatusTrace(x)[i - 1] = Explored)

\* The nodes marked for deletion that are not back in the pool yet.
Retired == {x \in NodeIds : heap.n[x].markedForDeletion}

\* Every node operation begun on the marked node x leaves the heap as it is,
\* GetGame returns none, and descendToChild is fatal.
RetiredIsNoOp(x) ==
    /\ \A ord \in Orders : \A fn \in LikelihoodFns : \A recursive \in BOOLEAN :
         /\ Explore(heap, x, cfg.branch, ord, fn) = heap
         /\ calculateChildLikelihood(heap, x, recursive, ord, fn) = heap
         /\ processExploredNode(heap, x, ord, fn) = heap
         /\ updateMostLikelyUnexploredDescendent(heap, x, recursive, ord) = heap
         /\ setWaitingForExploration(heap, x, ord) = heap
    /\ \A count \in 0..MaxBranch : addDescendents(heap, x, count) = heap
    /\ updateAverageDepth(heap, x) = heap
    /\ GetGame(heap, x) = NoGame
    /\ \A move \in 1..MaxBranch : descendFails(heap, x, move)

\* C16: every node operation that begins on a node already marked for
\* deletion returns without changing any node, GetGame returns none and only
\* descendToChild is fatal; also for the Explore a worker begins on a marked
\* node it was handed, and for a deleteTree goroutine started on a marked node.
C16_RetiredIsNoOp ==
    [][/\ \A x \in Retired : RetiredIsNoOp(x)
       /\ \A w \in DOMAIN workers :
            (/\ workers[w].pc = "explore"
             /\ workers[w].node \in Retired
             /\ workers'[w].pc # "explore")
            => (heap' = heap /\ workers'[w].pc = "send")
       /\ \A i \in 1..Len(deleters) :
            (/\ ~Head(deleters[i]).entered
             /\ Head(deleters[i]).node \in Retired
             /\ deleters' = SetTask(i, Tail(deleters[i])))
            => heap' = heap]_vars

\* A worker began Explore on a node that was marked for deletion after it was
\* handed out, and is about to hand it back as it was: WaitingForExploration,
\* without children; and a marked node with children and a counted parent is
\* there for the other operations.
C16_Witness ==
    /\ \E w \in DOMAIN workers :
         /\ workers[w].pc = "send"
         /\ workers[w].node \in Retired
         /\ heap.n[workers[w].node].explorationStatus = WaitingForExploration
         /\ heap.n[workers[w].node].children = <<>>
    /\ \E x \in Retired : heap.n[x].children # <<>>

\* C17 as claimed: once the coordinator has set the terminate flags and left
\* its loop, every worker eventually exits its loop.
C17_WorkersExit ==
    (coord.pc = "done") ~> (\A w \in DOMAIN workers : workers[w].pc = "exited")

\* C18: while the coordinator is running, every worker that waits for a node on
\* its reply channel has that channel on unexploredNodeReceiverChannel: the
\* coordinator has answered or put back every request it has taken, and
\* every frontier step either hands the requesting worker a node or puts its
\* reply channel back.
FrontierTaken(w) ==
    /\ coord.pc = "select"
    /\ unexploredNodeReceiverChannel # <<>>
    /\ Head(unexploredNodeReceiverChannel) = w
    /\ workers[w].pc = "waiting"
    /\ \/ unexploredNodeReceiverChannel' = Tail(unexploredNodeReceiverChannel)
       \/ unexploredNodeReceiverChannel' = Append(Tail(unexploredNodeReceiverChannel), w)

NoReplyChannelDropped ==
    \A w \in DOMAIN workers :
        workers[w].pc = "waiting" => w \in Range(unexploredNodeReceiverChannel)

C18_RequestsAnsweredOrPutBack ==
    [][/\ Alive' => NoReplyChannelDropped'
       /\ \A w \in DOMAIN workers :
            (FrontierTaken(w) /\ Alive') =>
                \/ workers'[w].pc = "explore" /\ workers'[w].node # NoNode
                \/ w \in Range(unexploredNodeReceiverChannel')]_vars

C18_Witness ==
    /\ Alive
    /\ coord.pc = "select"
    /\ heap.n[rootNode].mostLikelyUnexploredDescendent = NoNode
    /\ \E w \in DOMAIN workers : workers[w].pc = "explore"
    /\ \E w \in DOMAIN workers :
         workers[w].pc = "waiting" /\ Head(unexploredNodeReceiverChannel) = w

\* C18 as claimed, its last part: while the coordinator is running, a worker
\* that waits on its reply channel does not wait for ever.
C18_NoWorkerWaitsForever ==
    \A w \in 1..NumWorkers :
        (w \in DOMAIN workers /\ workers[w].pc = "waiting" /\ coord.pc = "select")
            ~> (w \in DOMAIN workers /\ (workers[w].pc # "waiting" \/ coord.pc # "select"))

\* The root has nothing to hand out although the budget is not reached.
FrontierNone ==
    /\ coord.pc = "select"
    /\ heap.n[rootNode].mostLikelyUnexploredDescendent = NoNode
    /\ WithinBudget(heap, rootNode, cfg.maxNodeCount)

\* C19 as claimed: in every reachable state, if the root's
\* mostLikelyUnexploredDescendent is nil and the root's descendentCount is
\* below maxNodeCount, then no worker holds a node and no expanded node awaits
\* processing.
C19_FrontierNoneMeansIdle == FrontierNone => NoExpansionInFlight

\* C19 amended: in every reachable state, if the root's
\* mostLikelyUnexploredDescendent is nil and the root's descendentCount is
\* below maxNodeCount, then the root's frontier is empty (every Unexplored
\* node of its subtree lies below a node that is not yet Archived), and
\* if moreover no worker holds a node and no expanded node awaits
\* processing, the root's subtree has no Unexplored node at all.
C19_FrontierNoneMeansNothingToHandOut ==
    FrontierNone =>
        /\ Frontier(heap, rootNode) = {}
        /\ NoExpansionInFlight =>
               \A x \in LiveNodes : heap.n[x].explorationStatus # Unexplored

C19_Witness ==
    /\ FrontierNone
    /\ heap.n[rootNode].children # <<>>
    /\ \E w \in DOMAIN workers : Holding(w)
    /\ \E w \in DOMAIN workers : workers[w].pc = "waiting"

\* C20 as claimed: when MakeMove returns an error for a move on the game of a
\* node, the node has no child for that move, and the game GetGame gives for a
\* child is its parent's game with the child's move applied.
C20_FailedMoveFailsExpansion ==
    \A x \in LiveNodes : \A m \in DOMAIN heap.n[x].children :
        LET parentGame == GetGame(heap, x)
            childGame == GetGame(heap, heap.n[x].children[m])
        IN parentGame # NoGame =>
             /\ ~MakeMoveError(parentGame, m)
             /\ childGame # NoGame => childGame = Append(parentGame, m)

\* The number of places of sequence q that hold x.
Occurrences(q, x) == Cardinality({i \in 1..Len(q) : q[i] = x})

\* The operations that bracket node x at this moment: the Explore of a worker
\* past its entry (node.go 317-320), the GetGame calls that worker has entered
\* (187-190) and the deleteTree calls entered (118-121).
Bracketing(x) ==
    Cardinality({w \in DOMAIN workers :
                    workers[w].pc \in {"getgame", "incr", "expand"} /\ workers[w].node = x})
    + Cardinality({p \in UNION {{w} \X (1..Len(workers[w].stack)) : w \in DOMAIN workers} :
                    workers[p[1]].stack[p[2]] = x})
    + Cardinality({p \in UNION {{i} \X (1..Len(deleters[i])) : i \in 1..Len(deleters)} :
                    deleters[p[1]][p[2]].entered /\ deleters[p[1]][p[2]].node = x})

\* The nodes whose mostLikelyUnexploredDescendent points at x, x itself apart.
CachedBy(x) == {y \in NodeIds \ {x} : heap.n[y].mostLikelyUnexploredDescendent = x}

\* The references taken when x was handed to a worker (expectimax.go 172) and
\* not yet given back (expectimax.go 123, 136).
InFlight(x) ==
    Cardinality(HoldersOf(x)) + Occurrences(exploredNodeChannel, x) + pendingDecrements[x]

\* C21: in every reachable state the referenceCount of every node is at least
\* 0 and equals the number of operations bracketing the node, plus the number
\* of nodes whose mostLikelyUnexploredDescendent points at it, plus the
\* references of its being in flight to a worker.
C21_ReferenceCountIsExact ==
    \A x \in NodeIds :
        /\ heap.n[x].referenceCount >= 0
        /\ heap.n[x].referenceCount = Bracketing(x) + Cardinality(CachedBy(x)) + InFlight(x)

\* C22 as claimed: whenever the coordinator is at the send that puts a request
\* it has taken back on its request channel, the channel has room.
C22_RequeueFindsRoom ==
    coord.pc = "requeueBest" => Len(bestMoveChannelReceiver) < RequestChannelCap

====
